---- MODULE Spec2Model ----
(***************************************************************************)
(* Model of the FSEvents bridge (package fsevents): the EventStream        *)
(* lifecycle (start / flush / stop), the callback bridge and the registry. *)
(* The native framework is the environment: it allocates stream and queue  *)
(* objects, answers the lifecycle calls and invokes the callback.          *)
(***************************************************************************)
EXTENDS Integers, Sequences, FiniteSets, TLC

\* ------------------------------------------------------------------ bounds
MaxStarts == 2      \* calls of Start that reach native stream creation
MaxCallbacks == 1   \* callback invocations made by the native runtime
MaxBatch == 2       \* events in one native batch
MaxRaceCallbacks == 2   \* callback invocations under RaceSpec and FairSpec
MaxRaceBatch == 1   \* events in one native batch under RaceSpec
MaxFairBatch == 0   \* events in one native batch under FairSpec
MaxPaths == 2       \* paths handed to createPaths
MaxPathLen == 3     \* bytes in one path

\* ------------------------------------------------------------ 64-bit words
\* A uint64 is four 16-bit limbs, most significant first.
LimbMax == 65535

U64(n) == <<0, 0, 0, n>>

Not64(x) == [k \in 1..4 |-> LimbMax - x[k]]

Less64(a, b) ==
    \E k \in 1..4 : /\ a[k] < b[k]
                    /\ \A j \in 1..(k - 1) : a[j] = b[j]

Leq64(a, b) == a = b \/ Less64(a, b)

\* const eventIDSinceNow = ^uint64(0)
eventIDSinceNow == Not64(U64(0))

\* ------------------------------------------------------------- event flags
ItemCreated == 256
ItemModified == 4096
ItemIsFile == 65536

\* ---------------------------------------------------------- native strings
\* A native pointer is NULL (0) or an address.  Memory holds, at each address
\* a path pointer may carry, the bytes found there: "/a" and "", each ended
\* by a 0 byte (what follows the 0 byte is other data).
NULL == 0

Memory == << <<47, 97, 0, 7>>, <<0, 47>> >>

\* The loop of cStringToGoString: the offset of the first 0 byte.
RECURSIVE cStrLen(_, _)
cStrLen(cstr, length) ==
    IF Memory[cstr][length + 1] = 0 THEN length ELSE cStrLen(cstr, length + 1)

\* func cStringToGoString(cstr uintptr) string
cStringToGoString(cstr) ==
    IF cstr = 0 THEN <<>>
    ELSE LET length == cStrLen(cstr, 0)
         IN  IF length = 0 THEN <<>> ELSE SubSeq(Memory[cstr], 1, length)

\* ------------------------------------------------------------ native calls
\* One call made through purego.SyscallN: the function, the stream handle
\* (returned by a creation, passed otherwise), the queue handle, for a
\* creation the since-identifier and the context token, and the result of
\* FSEventStreamStart.
Call(fn, ref, q, since, info, res) ==
    [fn |-> fn, ref |-> ref, q |-> q, since |-> since, info |-> info, res |-> res]

StreamCall(fn, ref) == Call(fn, ref, 0, U64(0), 0, 0)

QueueCall(fn, q) == Call(fn, NULL, q, U64(0), 0, 0)

Fns(calls) == [k \in 1..Len(calls) |-> calls[k].fn]

\* ------------------------------------------------------- lifecycle (wrap.go)
\* func setupStream(paths, flags, callbackInfo, eventID, latency, deviceID):
\* ref is what the native creation returns (NULL on failure).
setupStream(callbackInfo, eventID, deviceID, ref) ==
    LET since == eventID
        fn == IF deviceID # 0 THEN "FSEventStreamCreateRelativeToDevice"
                               ELSE "FSEventStreamCreate"
    IN  [ref |-> ref, calls |-> << Call(fn, ref, 0, since, callbackInfo, 0) >>]

\* What FSEventStreamStart answers: failure for a NULL stream, otherwise
\* the result res the framework chooses.
nativeStart(stream, res) == IF stream = NULL THEN 0 ELSE res

\* start that always asks for events since now, whatever Resume says.
start_sinceNow(es, cbInfo, ref, q, res) ==
    LET since == eventIDSinceNow
        setup == setupStream(cbInfo, since, es.Device, ref)
        es1 == [es EXCEPT !.stream = setup.ref, !.qref = q]
        r == nativeStart(es1.stream, res)
        head == setup.calls \o
                << QueueCall("dispatch_queue_create", q),
                   Call("FSEventStreamSetDispatchQueue", es1.stream, es1.qref, U64(0), 0, 0),
                   Call("FSEventStreamStart", es1.stream, 0, U64(0), 0, r) >>
    IN  IF r = 0
        THEN [es |-> es1,
              calls |-> head \o << StreamCall("FSEventStreamInvalidate", es1.stream),
                                   StreamCall("FSEventStreamRelease", es1.stream),
                                   QueueCall("dispatch_release", es1.qref) >>,
              err |-> TRUE]
        ELSE [es |-> es1, calls |-> head, err |-> FALSE]

\* start that also clears the stored checkpoint.
start_resetID(es, cbInfo, ref, q, res) ==
    LET since == IF es.Resume THEN es.EventID ELSE eventIDSinceNow
        setup == setupStream(cbInfo, since, es.Device, ref)
        es1 == [es EXCEPT !.stream = setup.ref, !.qref = q, !.EventID = U64(0)]
        r == nativeStart(es1.stream, res)
        head == setup.calls \o
                << QueueCall("dispatch_queue_create", q),
                   Call("FSEventStreamSetDispatchQueue", es1.stream, es1.qref, U64(0), 0, 0),
                   Call("FSEventStreamStart", es1.stream, 0, U64(0), 0, r) >>
    IN  IF r = 0
        THEN [es |-> es1,
              calls |-> head \o << StreamCall("FSEventStreamInvalidate", es1.stream),
                                   StreamCall("FSEventStreamRelease", es1.stream),
                                   QueueCall("dispatch_release", es1.qref) >>,
              err |-> TRUE]
        ELSE [es |-> es1, calls |-> head, err |-> FALSE]

\* start with the failure path releasing the queue before the stream.
start_queueFirst(es, cbInfo, ref, q, res) ==
    LET since == IF es.Resume THEN es.EventID ELSE eventIDSinceNow
        setup == setupStream(cbInfo, since, es.Device, ref)
        es1 == [es EXCEPT !.stream = setup.ref, !.qref = q]
        r == nativeStart(es1.stream, res)
        head == setup.calls \o
                << QueueCall("dispatch_queue_create", q),
                   Call("FSEventStreamSetDispatchQueue", es1.stream, es1.qref, U64(0), 0, 0),
                   Call("FSEventStreamStart", es1.stream, 0, U64(0), 0, r) >>
    IN  IF r = 0
        THEN [es |-> es1,
              calls |-> head \o << QueueCall("dispatch_release", es1.qref),
                                   StreamCall("FSEventStreamInvalidate", es1.stream),
                                   StreamCall("FSEventStreamRelease", es1.stream) >>,
              err |-> TRUE]
        ELSE [es |-> es1, calls |-> head, err |-> FALSE]

\* func (es *EventStream) start(paths, cbInfo) error: ref, q and res are the
\* results of the native creation, dispatch_queue_create and
\* FSEventStreamStart.
start(es, cbInfo, ref, q, res) ==
    LET since == IF es.Resume THEN es.EventID ELSE eventIDSinceNow
        setup == setupStream(cbInfo, since, es.Device, ref)
        es1 == [es EXCEPT !.stream = setup.ref, !.qref = q]
        r == nativeStart(es1.stream, res)
        head == setup.calls \o
                << QueueCall("dispatch_queue_create", q),
                   Call("FSEventStreamSetDispatchQueue", es1.stream, es1.qref, U64(0), 0, 0),
                   Call("FSEventStreamStart", es1.stream, 0, U64(0), 0, r) >>
    IN  IF r = 0
        THEN [es |-> es1,
              calls |-> head \o << StreamCall("FSEventStreamInvalidate", es1.stream),
                                   StreamCall("FSEventStreamRelease", es1.stream),
                                   QueueCall("dispatch_release", es1.qref) >>,
              err |-> TRUE]
        ELSE [es |-> es1, calls |-> head, err |-> FALSE]

\* func flush(stream, sync)
flush(stream, sync) ==
    IF stream = 0 THEN <<>>
    ELSE IF sync THEN << StreamCall("FSEventStreamFlushSync", stream) >>
                 ELSE << StreamCall("FSEventStreamFlushAsync", stream) >>

\* stop that tears the stream down but never releases it.
stop_noRelease(stream, qref) ==
    IF stream = 0 THEN <<>>
    ELSE << StreamCall("FSEventStreamStop", stream),
            StreamCall("FSEventStreamInvalidate", stream),
            QueueCall("dispatch_release", qref) >>

\* stop releasing the stream before it is invalidated.
stop_releaseFirst(stream, qref) ==
    IF stream = 0 THEN <<>>
    ELSE << StreamCall("FSEventStreamStop", stream),
            StreamCall("FSEventStreamRelease", stream),
            StreamCall("FSEventStreamInvalidate", stream),
            QueueCall("dispatch_release", qref) >>

\* stop that releases the queue and leaves the native stream running.
stop_queueOnly(stream, qref) ==
    IF stream = 0 THEN <<>>
    ELSE << QueueCall("dispatch_release", qref) >>

\* func stop(stream, qref)
stop(stream, qref) ==
    IF stream = 0 THEN <<>>
    ELSE << StreamCall("FSEventStreamStop", stream),
            StreamCall("FSEventStreamInvalidate", stream),
            StreamCall("FSEventStreamRelease", stream),
            QueueCall("dispatch_release", qref) >>

\* --------------------------------------------------- the native framework
\* The framework's view of the objects it handed out.  st: state of each
\* stream object; qst: state of each dispatch queue; ctx: context token a
\* stream was created with; rel / qrel: releases received; bad: some call
\* received a handle that was already released.
Handles == 1..MaxStarts

NatInit ==
    [st |-> [h \in Handles |-> "none"], qst |-> [h \in Handles |-> "none"],
     ctx |-> [h \in Handles |-> 0], since |-> [h \in Handles |-> U64(0)],
     rel |-> [h \in Handles |-> 0], qrel |-> [h \in Handles |-> 0],
     bad |-> FALSE]

OnStream(n, ref, to) ==
    IF ref = NULL THEN n
    ELSE IF n.st[ref] = "released" THEN [n EXCEPT !.bad = TRUE]
    ELSE [n EXCEPT !.st[ref] = to]

ApplyCall(n, c) ==
    CASE c.fn \in {"FSEventStreamCreate", "FSEventStreamCreateRelativeToDevice"} ->
           IF c.ref = NULL THEN n
           ELSE [n EXCEPT !.st[c.ref] = "created", !.ctx[c.ref] = c.info,
                          !.since[c.ref] = c.since]
      [] c.fn = "dispatch_queue_create" -> [n EXCEPT !.qst[c.q] = "live"]
      [] c.fn = "FSEventStreamSetDispatchQueue" -> OnStream(n, c.ref, "scheduled")
      [] c.fn = "FSEventStreamStart" ->
           OnStream(n, c.ref, IF c.res = 0 THEN n.st[c.ref] ELSE "started")
      [] c.fn \in {"FSEventStreamFlushSync", "FSEventStreamFlushAsync"} ->
           OnStream(n, c.ref, n.st[c.ref])
      [] c.fn = "FSEventStreamStop" -> OnStream(n, c.ref, "stopped")
      [] c.fn = "FSEventStreamInvalidate" -> OnStream(n, c.ref, "invalidated")
      [] c.fn = "FSEventStreamRelease" ->
           IF c.ref = NULL THEN n
           ELSE [OnStream(n, c.ref, "released") EXCEPT !.rel[c.ref] = @ + 1]
      [] c.fn = "dispatch_release" ->
           [n EXCEPT !.qst[c.q] = "released", !.qrel[c.q] = @ + 1,
                     !.bad = @ \/ n.qst[c.q] = "released"]

RECURSIVE ApplyCalls(_, _)
ApplyCalls(n, calls) ==
    IF calls = <<>> THEN n
    ELSE ApplyCalls(ApplyCall(n, Head(calls)), Tail(calls))

\* ------------------------------------------------------- callback (wrap.go)
\* The batches the native runtime may deliver: parallel arrays of path
\* pointers, flag words and identifiers.  The identifiers of a batch need
\* not be sorted (EventIDsWrapped announces that they can go back).
NativeEvents ==
    { [path |-> NULL, flags |-> ItemModified, id |-> U64(3)],
      [path |-> 1, flags |-> ItemCreated + ItemIsFile, id |-> U64(1)] }

Batches == UNION { [1..n -> NativeEvents] : n \in 0..MaxBatch }

Event(path, flags, id) == [Path |-> path, Flags |-> flags, ID |-> id]

ZeroEvent == Event(<<>>, 0, U64(0))

\* One invocation of callback: its arguments, its locals and its position;
\* seq numbers the invocations in the order the runtime makes them.
IdleCb ==
    [pc |-> "idle", info |-> 0, numEvents |-> 0, paths |-> <<>>, flags |-> <<>>,
     ids |-> <<>>, l |-> 0, i |-> 0, events |-> <<>>, seq |-> 0]

\* The native runtime calls callback(stream, info, numEvents, paths, flags, ids).
callbackInvoke(info, batch) ==
    [IdleCb EXCEPT !.pc = "get", !.info = info, !.numEvents = Len(batch),
                   !.paths = [k \in 1..Len(batch) |-> batch[k].path],
                   !.flags = [k \in 1..Len(batch) |-> batch[k].flags],
                   !.ids = [k \in 1..Len(batch) |-> batch[k].id]]

\* registry.Get(info): the stream registered under the token, or nil.
registryGet(reg, info) == info \in reg

\* callback without the nil check on the registry lookup.
callbackEnter_noCheck(c, reg) ==
    [c |-> [c EXCEPT !.pc = "loop", !.l = c.numEvents, !.i = 0,
                     !.events = [k \in 1..c.numEvents |-> ZeroEvent]],
     log |-> 0]

\* es := registry.Get(info); if es == nil { log.Printf(...); return };
\* l := numEvents; events := make([]Event, l).  log counts the lines logged.
callbackEnter(c, reg) ==
    IF ~registryGet(reg, c.info) THEN [c |-> IdleCb, log |-> 1]
    ELSE [c |-> [c EXCEPT !.pc = "loop", !.l = c.numEvents, !.i = 0,
                          !.events = [k \in 1..c.numEvents |-> ZeroEvent]],
          log |-> 0]

\* The loop pairing every event with the first flag word.
callbackLoop_firstFlags(c, e) ==
    IF c.i < c.l
    THEN LET path == cStringToGoString(c.paths[c.i + 1])
         IN  [c |-> [c EXCEPT !.events[c.i + 1] =
                                  Event(path, c.flags[1], c.ids[c.i + 1]),
                              !.i = c.i + 1],
              es |-> [e EXCEPT !.EventID = c.ids[c.i + 1]],
              send |-> <<>>]
    ELSE [c |-> [c EXCEPT !.pc = "send"], es |-> e, send |-> << c.events >>]

\* The loop keeping the largest identifier seen as the checkpoint.
callbackLoop_max(c, e) ==
    IF c.i < c.l
    THEN LET path == cStringToGoString(c.paths[c.i + 1])
         IN  [c |-> [c EXCEPT !.events[c.i + 1] =
                                  Event(path, c.flags[c.i + 1], c.ids[c.i + 1]),
                              !.i = c.i + 1],
              es |-> [e EXCEPT !.EventID = IF Less64(@, c.ids[c.i + 1])
                                           THEN c.ids[c.i + 1] ELSE @],
              send |-> <<>>]
    ELSE [c |-> [c EXCEPT !.pc = "send"], es |-> e, send |-> << c.events >>]

\* The loop with a write that gives up instead of blocking: the batch is
\* dropped and the callback returns.
callbackLoop_noBlock(c, e) ==
    IF c.i < c.l
    THEN LET path == cStringToGoString(c.paths[c.i + 1])
         IN  [c |-> [c EXCEPT !.events[c.i + 1] =
                                  Event(path, c.flags[c.i + 1], c.ids[c.i + 1]),
                              !.i = c.i + 1],
              es |-> [e EXCEPT !.EventID = c.ids[c.i + 1]],
              send |-> <<>>]
    ELSE [c |-> IdleCb, es |-> e, send |-> <<>>]

\* The loop with a write that does not wait for the consumer, as on a
\* buffered channel: the callback returns with its batch still unreceived.
callbackLoop_buffered(c, e) ==
    IF c.i < c.l
    THEN LET path == cStringToGoString(c.paths[c.i + 1])
         IN  [c |-> [c EXCEPT !.events[c.i + 1] =
                                  Event(path, c.flags[c.i + 1], c.ids[c.i + 1]),
                              !.i = c.i + 1],
              es |-> [e EXCEPT !.EventID = c.ids[c.i + 1]],
              send |-> <<>>]
    ELSE [c |-> IdleCb, es |-> e, send |-> << c.events >>]

\* The loop that skips an event whose path pointer is null, leaving the
\* zero Event in its place.
callbackLoop_skipNull(c, e) ==
    IF c.i < c.l
    THEN IF c.paths[c.i + 1] = NULL
         THEN [c |-> [c EXCEPT !.i = c.i + 1], es |-> e, send |-> <<>>]
         ELSE [c |-> [c EXCEPT !.events[c.i + 1] =
                                   Event(cStringToGoString(c.paths[c.i + 1]),
                                         c.flags[c.i + 1], c.ids[c.i + 1]),
                               !.i = c.i + 1],
               es |-> [e EXCEPT !.EventID = c.ids[c.i + 1]],
               send |-> <<>>]
    ELSE [c |-> [c EXCEPT !.pc = "send"], es |-> e, send |-> << c.events >>]

\* The loop that returns without writing when the batch is empty.
callbackLoop_skipEmpty(c, e) ==
    IF c.i < c.l
    THEN LET path == cStringToGoString(c.paths[c.i + 1])
         IN  [c |-> [c EXCEPT !.events[c.i + 1] =
                                  Event(path, c.flags[c.i + 1], c.ids[c.i + 1]),
                              !.i = c.i + 1],
              es |-> [e EXCEPT !.EventID = c.ids[c.i + 1]],
              send |-> <<>>]
    ELSE IF c.l = 0 THEN [c |-> IdleCb, es |-> e, send |-> <<>>]
    ELSE [c |-> [c EXCEPT !.pc = "send"], es |-> e, send |-> << c.events >>]

\* The loop that records the checkpoint for every event but the last.
callbackLoop_skipLast(c, e) ==
    IF c.i < c.l
    THEN LET path == cStringToGoString(c.paths[c.i + 1])
         IN  [c |-> [c EXCEPT !.events[c.i + 1] =
                                  Event(path, c.flags[c.i + 1], c.ids[c.i + 1]),
                              !.i = c.i + 1],
              es |-> IF c.i + 1 < c.l THEN [e EXCEPT !.EventID = c.ids[c.i + 1]] ELSE e,
              send |-> <<>>]
    ELSE [c |-> [c EXCEPT !.pc = "send"], es |-> e, send |-> << c.events >>]

\* One pass of  for i := 0; i < l; i++ { ... }  and, when the loop is over,
\* the statement  es.Events <- events.  send holds the channel writes begun.
callbackLoop(c, e) ==
    IF c.i < c.l
    THEN LET path == cStringToGoString(c.paths[c.i + 1])
         IN  [c |-> [c EXCEPT !.events[c.i + 1] =
                                  Event(path, c.flags[c.i + 1], c.ids[c.i + 1]),
                              !.i = c.i + 1],
              es |-> [e EXCEPT !.EventID = c.ids[c.i + 1]],
              send |-> <<>>]
    ELSE [c |-> [c EXCEPT !.pc = "send"], es |-> e, send |-> << c.events >>]

\* ---------------------------------------------------- marshaling (wrap.go)
\* Go strings are byte sequences.  The paths handed to createPaths are built
\* from the bytes "/" (47) and "a" (97).
PathNames == UNION { [1..n -> {47, 97}] : n \in 0..MaxPathLen }

PathLists == UNION { [1..n -> PathNames] : n \in 0..MaxPaths }

\* The working directory os.Getwd reports when it succeeds: "/w".
WorkDir == <<47, 119>>

\* filepath.Clean on a path without "." and ".." elements: repeated
\* separators become one, a trailing separator goes unless the path is the
\* root, and the empty path becomes ".".
RECURSIVE Squeeze(_)
Squeeze(p) ==
    IF Len(p) < 2 THEN p
    ELSE IF p[1] = 47 /\ p[2] = 47 THEN Squeeze(Tail(p))
    ELSE <<p[1]>> \o Squeeze(Tail(p))

filepathClean(p) ==
    IF p = <<>> THEN <<46>>
    ELSE LET q == Squeeze(p)
         IN  IF Len(q) > 1 /\ q[Len(q)] = 47 THEN SubSeq(q, 1, Len(q) - 1) ELSE q

\* filepath.Abs: an absolute path is cleaned; any other path is joined to
\* the working directory, and fails with the empty result when os.Getwd fails.
filepathAbs(path, wdOk) ==
    IF path # <<>> /\ path[1] = 47 THEN [p |-> filepathClean(path), err |-> FALSE]
    ELSE IF wdOk THEN [p |-> filepathClean(WorkDir \o <<47>> \o path), err |-> FALSE]
    ELSE [p |-> <<>>, err |-> TRUE]

\* The CoreFoundation heap: the objects handed out so far, an object's
\* reference being its index.  own: the caller owns a reference to it (it
\* came from a Create or Copy function); rel: the cfRelease calls made on it.
CFNew(heap, kind, val, own) ==
    Append(heap, [kind |-> kind, val |-> val, own |-> own, rel |-> 0])

CFRelease(heap, ref) ==
    IF ref = 0 THEN heap ELSE [heap EXCEPT ![ref].rel = @ + 1]

CFArrayAppendValue(heap, arr, ref) == [heap EXCEPT ![arr].val = Append(@, ref)]

\* The bytes of a C string: those before the first 0 byte.
RECURSIVE UpToZero(_)
UpToZero(bytes) ==
    IF bytes = <<>> \/ Head(bytes) = 0 THEN <<>>
    ELSE <<Head(bytes)>> \o UpToZero(Tail(bytes))

\* func goStringToCFString(s string) CFStringRef: ok is whether
\* CFStringCreateWithCString hands out a string.
goStringToCFString(heap, s, ok) ==
    LET bytes == s \o <<0>>
    IN  IF ok THEN [heap |-> CFNew(heap, "string", UpToZero(bytes), TRUE),
                    ref |-> Len(heap) + 1]
        ELSE [heap |-> heap, ref |-> 0]

\* func goStringToCFURL(s string) CFURLRef
goStringToCFURL(heap, s, strOk, urlOk) ==
    LET a == goStringToCFString(heap, s, strOk)
        urlStr == a.ref
    IN  IF urlStr = 0 THEN [heap |-> a.heap, ref |-> 0]
        ELSE LET h1 == IF urlOk THEN CFNew(a.heap, "url", a.heap[urlStr].val, TRUE)
                       ELSE a.heap
                 ret == IF urlOk THEN Len(a.heap) + 1 ELSE 0
             IN  [heap |-> CFRelease(h1, urlStr), ref |-> ret]

\* func cfStringToGoString(ref CFStringRef) string: the string is copied as
\* UTF-8 into a buffer of length*5+1 bytes and read up to its first 0 byte.
cfStringToGoString(heap, ref) ==
    IF ref = 0 THEN <<>>
    ELSE LET length == Len(heap[ref].val)
         IN  IF length = 0 THEN <<>>
             ELSE LET maxBytes == (length * 5) + 1
                      success == Len(heap[ref].val) + 1 <= maxBytes
                      buffer == [k \in 1..maxBytes |->
                                   IF success /\ k <= length THEN heap[ref].val[k] ELSE 0]
                  IN  IF ~success THEN <<>> ELSE UpToZero(buffer)

\* The loop of createPaths over the paths left; st holds the heap, the array
\* and the paths that failed so far.
RECURSIVE createPathsLoop(_, _, _)
createPathsLoop(st, paths, wdOk) ==
    IF paths = <<>> THEN st
    ELSE LET a == filepathAbs(Head(paths), wdOk)
             errs == IF a.err THEN Append(st.errs, Head(paths)) ELSE st.errs
             cfStr == goStringToCFString(st.heap, a.p, TRUE)
         IN  createPathsLoop([heap |-> CFArrayAppendValue(cfStr.heap, st.arr, cfStr.ref),
                              arr |-> st.arr, errs |-> errs],
                             Tail(paths), wdOk)

\* createPaths that puts every path in front of those before it.
createPaths_prepend(heap, paths, wdOk) ==
    LET cfArray == Len(heap) + 1
        r == createPathsLoop([heap |-> CFNew(heap, "array", <<>>, TRUE),
                              arr |-> cfArray, errs |-> <<>>], paths, wdOk)
        n == Len(r.heap[cfArray].val)
    IN  [heap |-> [r.heap EXCEPT ![cfArray].val = [k \in 1..n |-> @[n + 1 - k]]],
         arr |-> r.arr, err |-> r.errs]

\* func createPaths(paths []string) (CFArrayRef, error): err lists the paths
\* that failed, empty for the nil error.
createPaths(heap, paths, wdOk) ==
    LET cfArray == Len(heap) + 1
        r == createPathsLoop([heap |-> CFNew(heap, "array", <<>>, TRUE),
                              arr |-> cfArray, errs |-> <<>>], paths, wdOk)
    IN  [heap |-> r.heap, arr |-> r.arr, err |-> r.errs]

\* The texts of the strings an array holds.
ArrayTexts(heap, arr) == [k \in 1..Len(heap[arr].val) |-> heap[heap[arr].val[k]].val]

\* setupStream, the path array: cPaths, err := createPaths(paths); the error
\* is logged; the array is handed to the native creation, which keeps the
\* texts as the paths watched; defer cfRelease(cPaths).
setupStreamPaths(heap, paths, wdOk) ==
    LET c == createPaths(heap, paths, wdOk)
    IN  [heap |-> CFRelease(c.heap, c.arr),
         watched |-> ArrayTexts(c.heap, c.arr),
         log |-> IF c.err # <<>> THEN 1 ELSE 0]

\* FSEventStreamCopyPathsBeingWatched: a new array, owned by the caller, of
\* strings the array owns, with the texts of the paths watched.
CopyPathsBeingWatched(heap, watched) ==
    LET n == Len(watched)
        strs == [k \in 1..n |-> [kind |-> "string", val |-> watched[k],
                                 own |-> FALSE, rel |-> 0]]
    IN  CFNew(heap \o strs, "array", [k \in 1..n |-> Len(heap) + k], TRUE)

\* func getStreamRefPaths(stream fsEventStreamRef) []string
getStreamRefPaths(heap, watched) ==
    LET h1 == CopyPathsBeingWatched(heap, watched)
        arr == Len(h1)
        l == Len(h1[arr].val)
        ss == [i \in 1..l |-> cfStringToGoString(h1, h1[arr].val[i])]
    IN  [heap |-> CFRelease(h1, arr), out |-> ss]

\* The description FSEventStreamCopyDescription hands out: "s".
Description == <<115>>

\* func getStreamRefDescription(stream fsEventStreamRef) string
getStreamRefDescription(heap) ==
    LET h1 == CFNew(heap, "string", Description, TRUE)
        cfStr == Len(h1)
    IN  [heap |-> CFRelease(h1, cfStr), out |-> cfStringToGoString(h1, cfStr)]

\* The text CFUUIDCreateString hands out for a device: "U".
UUIDText == <<85>>

\* func GetDeviceUUID(deviceID int32) string: uuidOk is whether
\* FSEventsCopyUUIDForDevice hands out a UUID.
GetDeviceUUID(heap, uuidOk) ==
    IF ~uuidOk THEN [heap |-> heap, out |-> <<>>]
    ELSE LET h1 == CFNew(heap, "uuid", <<>>, TRUE)
             h2 == CFNew(h1, "string", UUIDText, TRUE)
             uuidStr == Len(h2)
         IN  [heap |-> h2, out |-> cfStringToGoString(h2, uuidStr)]

\* ------------------------------------------------------------------- state
VARIABLES
    es,        \* the EventStream: stream, qref, EventID, Resume, Device, registryID
    registry,  \* the tokens registered (each names the EventStream)
    starts,    \* native creations attempted so far
    nat,       \* the native framework's objects
    cb,        \* the callback invocation running on each stream's queue
    ncb,       \* callback invocations so far
    sendq,     \* writes blocked on the channel es.Events, oldest first
    logged,    \* "failed to retrieve registry" lines logged by callback
    processed, \* the identifier callback assigned to EventID last, if any
    last,      \* the last Start or Stop: the native calls it made, its result
    limit,     \* what the runtime does at most in this behaviour: callback
               \* invocations, events in a batch
    recv,      \* the writes the consumer received: invocation and stream, in order
    assigner,  \* the invocation that assigned EventID last, 0 if none
    mar        \* the marshaling call made: its inputs, the heap, its results

vars == <<es, registry, starts, nat, cb, ncb, sendq, logged, processed, last,
          limit, recv, assigner, mar>>

Op(op, calls, err) == [op |-> op, calls |-> calls, err |-> err]

Created ==
    /\ es \in [stream : {0}, qref : {0}, EventID : {U64(0)},
               Resume : BOOLEAN, Device : {0, 12}, registryID : {0}]
    /\ registry = {}
    /\ starts = 0
    /\ nat = NatInit
    /\ cb = [h \in Handles |-> IdleCb]
    /\ ncb = 0
    /\ sendq = <<>>
    /\ logged = 0
    /\ processed = <<>>
    /\ last = Op("init", <<>>, FALSE)
    /\ recv = <<>>
    /\ assigner = 0

\* No marshaling call made.
NoMarshal ==
    [op |-> "none", paths |-> <<>>, wdOk |-> TRUE, heap |-> <<>>, ret |-> 0,
     err |-> <<>>, out |-> <<>>, watched |-> <<>>, log |-> 0]

Init ==
    /\ Created
    /\ limit = [callbacks |-> MaxCallbacks, batch |-> MaxBatch]
    /\ mar = NoMarshal

\* ------------------------------------------------------ application calls
\* EventStream.Start: fails if already started; otherwise registers the
\* stream, calls es.start and leaves nothing registered when that fails.
alreadyStarted(e) == e.stream # 0

StartAlready ==
    /\ alreadyStarted(es)
    /\ last' = Op("Start", <<>>, TRUE)
    /\ UNCHANGED <<es, registry, starts, nat, cb, ncb, sendq, logged, processed,
                   limit, recv, assigner, mar>>

StartFresh ==
    /\ ~alreadyStarted(es)
    /\ starts < MaxStarts
    /\ \E null \in BOOLEAN, res \in {0, 1} :
         LET h == starts + 1
             cbInfo == starts + 1
             r == start([es EXCEPT !.registryID = cbInfo], cbInfo,
                        IF null THEN NULL ELSE h, h, res)
         IN  /\ es' = r.es
             /\ registry' = IF r.err THEN registry ELSE registry \cup {cbInfo}
             /\ nat' = ApplyCalls(nat, r.calls)
             /\ last' = Op("Start", r.calls, r.err)
    /\ starts' = starts + 1
    /\ UNCHANGED <<cb, ncb, sendq, logged, processed, limit, recv, assigner, mar>>

\* EventStream.Flush
Flush ==
    /\ \E sync \in BOOLEAN :
         LET calls == flush(es.stream, sync)
         IN  /\ nat' = ApplyCalls(nat, calls)
             /\ UNCHANGED last
    /\ UNCHANGED <<es, registry, starts, cb, ncb, sendq, logged, processed,
                   limit, recv, assigner, mar>>

\* EventStream.Stop: no-op when the native handle is cleared; otherwise
\* tears the stream down, clears the handle and deregisters.
Stop ==
    LET calls == stop(es.stream, es.qref)
    IN  /\ nat' = ApplyCalls(nat, calls)
        /\ last' = Op("Stop", calls, FALSE)
        /\ IF es.stream = 0
           THEN UNCHANGED <<es, registry>>
           ELSE /\ es' = [es EXCEPT !.stream = 0, !.registryID = 0]
                /\ registry' = registry \ {es.registryID}
        /\ UNCHANGED <<starts, cb, ncb, sendq, logged, processed, limit, recv, assigner, mar>>

\* ------------------------------------------------------- native runtime
\* A started stream's queue runs one callback at a time.
Invoke(h) ==
    /\ nat.st[h] = "started"
    /\ cb[h].pc = "idle"
    /\ ncb < limit.callbacks
    /\ \E batch \in Batches :
         /\ Len(batch) <= limit.batch
         /\ cb' = [cb EXCEPT ![h] = [callbackInvoke(nat.ctx[h], batch) EXCEPT !.seq = ncb + 1]]
    /\ ncb' = ncb + 1
    /\ UNCHANGED <<es, registry, starts, nat, sendq, logged, processed, last,
                   limit, recv, assigner, mar>>

CallbackGet(h) ==
    /\ cb[h].pc = "get"
    /\ LET r == callbackEnter(cb[h], registry)
       IN  /\ cb' = [cb EXCEPT ![h] = r.c]
           /\ logged' = logged + r.log
    /\ UNCHANGED <<es, registry, starts, nat, ncb, sendq, processed, last,
                   limit, recv, assigner, mar>>

CallbackLoop(h) ==
    /\ cb[h].pc = "loop"
    /\ LET r == callbackLoop(cb[h], es)
       IN  /\ cb' = [cb EXCEPT ![h] = r.c]
           /\ es' = r.es
           /\ sendq' = sendq \o [k \in 1..Len(r.send) |-> [h |-> h, batch |-> r.send[k]]]
           /\ processed' = IF cb[h].i < cb[h].l
                            THEN << cb[h].ids[cb[h].i + 1] >> ELSE processed
           /\ assigner' = IF cb[h].i < cb[h].l THEN cb[h].seq ELSE assigner
    /\ UNCHANGED <<registry, starts, nat, ncb, logged, last, limit, recv, mar>>

\* The consumer receives from es.Events: the oldest blocked write completes
\* and its callback returns.
Receive ==
    /\ sendq # <<>>
    /\ sendq' = Tail(sendq)
    /\ cb' = [cb EXCEPT ![Head(sendq).h] = IdleCb]
    /\ recv' = Append(recv, [seq |-> cb[Head(sendq).h].seq, h |-> Head(sendq).h])
    /\ UNCHANGED <<es, registry, starts, nat, ncb, logged, processed, last,
                   limit, assigner, mar>>

Next ==
    \/ StartAlready
    \/ StartFresh
    \/ Flush
    \/ Stop
    \/ \E h \in Handles : Invoke(h)
    \/ \E h \in Handles : CallbackGet(h)
    \/ \E h \in Handles : CallbackLoop(h)
    \/ Receive

Spec == Init /\ [][Next]_vars

\* The same program with room for a callback of a restarted stream beside
\* one of the stream stopped before it.
RaceInit ==
    /\ Created
    /\ es.Device = 0
    /\ limit = [callbacks |-> MaxRaceCallbacks, batch |-> MaxRaceBatch]
    /\ mar = NoMarshal

RaceSpec == RaceInit /\ [][Next]_vars

\* The same again with a consumer that keeps receiving and callbacks that
\* keep running; what the batches hold plays no part in their delivery.
FairInit ==
    /\ Created
    /\ es.Device = 0
    /\ limit = [callbacks |-> MaxRaceCallbacks, batch |-> MaxFairBatch]
    /\ mar = NoMarshal

FairSpec ==
    /\ FairInit
    /\ [][Next]_vars
    /\ WF_vars(Receive)
    /\ \A h \in Handles : WF_vars(CallbackGet(h)) /\ WF_vars(CallbackLoop(h))

\* ------------------------------------------------------- marshaling calls
\* The marshaling functions called on their own, as the tests call them, for
\* every list of paths and with os.Getwd succeeding or failing.
streamVars == <<es, registry, starts, cb, ncb, sendq, logged, processed, last,
                limit, recv, assigner>>

MarshalInit ==
    /\ Created
    /\ ~es.Resume /\ es.Device = 0
    /\ limit = [callbacks |-> 0, batch |-> 0]
    /\ mar \in { [NoMarshal EXCEPT !.paths = p, !.wdOk = w] :
                   p \in PathLists, w \in BOOLEAN }

\* createPaths(paths), as in TestCreatePath.
MarCreatePaths ==
    /\ mar.op = "none"
    /\ LET r == createPaths(mar.heap, mar.paths, mar.wdOk)
       IN  mar' = [mar EXCEPT !.op = "createPaths", !.heap = r.heap,
                              !.ret = r.arr, !.err = r.err]
    /\ UNCHANGED <<streamVars, nat>>

\* setupStream(paths, 0, 0, 42, 0, 12), as in TestEventStream.
MarSetupStream ==
    /\ mar.op = "none"
    /\ LET p == setupStreamPaths(mar.heap, mar.paths, mar.wdOk)
           s == setupStream(0, U64(42), 12, 1)
       IN  /\ mar' = [mar EXCEPT !.op = "setupStream", !.heap = p.heap,
                                 !.watched = p.watched, !.log = p.log]
           /\ nat' = ApplyCalls(nat, s.calls)
    /\ UNCHANGED streamVars

\* getStreamRefPaths(ref) on the stream set up.
MarGetPaths ==
    /\ mar.op = "setupStream"
    /\ LET r == getStreamRefPaths(mar.heap, mar.watched)
       IN  mar' = [mar EXCEPT !.op = "getStreamRefPaths", !.heap = r.heap, !.out = r.out]
    /\ UNCHANGED <<streamVars, nat>>

\* getStreamRefDescription(ref) on the stream set up.
MarGetDescription ==
    /\ mar.op = "setupStream"
    /\ LET r == getStreamRefDescription(mar.heap)
       IN  mar' = [mar EXCEPT !.op = "getStreamRefDescription", !.heap = r.heap,
                              !.out = <<r.out>>]
    /\ UNCHANGED <<streamVars, nat>>

\* goStringToCFURL(s) for the first path.
MarURL ==
    /\ mar.op = "none"
    /\ mar.paths # <<>>
    /\ \E strOk, urlOk \in BOOLEAN :
         LET r == goStringToCFURL(mar.heap, mar.paths[1], strOk, urlOk)
         IN  mar' = [mar EXCEPT !.op = "goStringToCFURL", !.heap = r.heap, !.ret = r.ref]
    /\ UNCHANGED <<streamVars, nat>>

\* GetDeviceUUID(did), as in TestDeviceID.
MarUUID ==
    /\ mar.op = "none"
    /\ \E uuidOk \in BOOLEAN :
         LET r == GetDeviceUUID(mar.heap, uuidOk)
         IN  mar' = [mar EXCEPT !.op = "GetDeviceUUID", !.heap = r.heap, !.out = <<r.out>>]
    /\ UNCHANGED <<streamVars, nat>>

MarshalNext ==
    \/ MarCreatePaths
    \/ MarSetupStream
    \/ MarGetPaths
    \/ MarGetDescription
    \/ MarURL
    \/ MarUUID

MarshalSpec == MarshalInit /\ [][MarshalNext]_vars

\* ------------------------------------------------------------ properties
Live(n, h) == h # NULL /\ n.st[h] \notin {"none", "released"}

\* C1: a Stop of a stream that holds a live native handle makes exactly the
\* calls FSEventStreamStop, FSEventStreamInvalidate, FSEventStreamRelease on
\* that stream and then dispatch_release on its queue, in this order, each
\* once; the stream and the queue end released exactly once.
C1_StopTeardownOrder ==
    [][ (Live(nat, es.stream) /\ es'.stream = 0) =>
          /\ last'.op = "Stop"
          /\ Fns(last'.calls) = << "FSEventStreamStop", "FSEventStreamInvalidate",
                                   "FSEventStreamRelease", "dispatch_release" >>
          /\ \A k \in 1..3 : last'.calls[k].ref = es.stream
          /\ last'.calls[4].q = es.qref
          /\ nat'.st[es.stream] = "released" /\ nat'.rel[es.stream] = 1
          /\ nat'.qst[es.qref] = "released" /\ nat'.qrel[es.qref] = 1
          /\ nat'.bad = nat.bad ]_vars

C1_Witness ==
    /\ last.op = "Stop"
    /\ Len(last.calls) = 4
    /\ nat.rel[last.calls[1].ref] = 1
    /\ ~nat.bad

IsUnwind(fn) ==
    fn \in {"FSEventStreamStop", "FSEventStreamInvalidate", "FSEventStreamRelease",
            "dispatch_release"}

\* C2: a Start whose native FSEventStreamStart fails then calls
\* FSEventStreamInvalidate and FSEventStreamRelease on the stream and
\* dispatch_release on the queue, in this order, each once and without
\* FSEventStreamStop, and returns an error; one whose native start succeeds
\* returns no error and makes none of these calls.
C2_StartFailureUnwind ==
    (last.op = "Start" /\ last.calls # <<>>) =>
        LET c == last.calls
        IN  /\ Len(c) >= 4
            /\ c[4].fn = "FSEventStreamStart" /\ c[4].ref = c[1].ref
            /\ c[4].res = 0 =>
                 /\ last.err
                 /\ Fns(SubSeq(c, 5, Len(c))) =
                      << "FSEventStreamInvalidate", "FSEventStreamRelease",
                         "dispatch_release" >>
                 /\ c[5].ref = c[1].ref /\ c[6].ref = c[1].ref /\ c[7].q = c[2].q
                 /\ \A k \in 1..Len(c) : c[k].fn # "FSEventStreamStop"
            /\ c[4].res # 0 =>
                 /\ ~last.err
                 /\ \A k \in 1..Len(c) : ~IsUnwind(c[k].fn)

C2_Witness ==
    /\ last.op = "Start"
    /\ last.err
    /\ Len(last.calls) = 7
    /\ last.calls[1].ref # NULL

\* C3: after a Start that failed in the native start the EventStream holds
\* no native stream or queue handle, and no native call ever receives a
\* handle that was already released.
C3_PreStartAfterFailure ==
    /\ (last.op = "Start" /\ last.err /\ last.calls # <<>>) =>
           (es.stream = 0 /\ es.qref = 0)
    /\ ~nat.bad

\* C4: a Stop leaves the handle cleared, so that a second Stop makes no
\* native call, and every stream handle and every dispatch queue is released
\* at most once.
C4_ReleasedAtMostOnce ==
    /\ last.op = "Stop" => stop(es.stream, es.qref) = <<>>
    /\ \A h \in Handles : nat.rel[h] <= 1 /\ nat.qrel[h] <= 1

LiveStreams == {h \in Handles : Live(nat, h)}

LiveQueues == {h \in Handles : nat.qst[h] = "live"}

PathText(p) == CASE p = 0 -> <<>> [] p = 1 -> <<47, 97>> [] p = 2 -> <<>>

\* The batch an invocation has to publish: one event per slot of the native
\* arrays, in native order.
Expected(c) ==
    [k \in 1..c.numEvents |->
        [Path |-> PathText(c.paths[k]), Flags |-> c.flags[k], ID |-> c.ids[k]]]

WritesOf(h) == {k \in 1..Len(sendq) : sendq[k].h = h}

\* C6: an invocation that found its token in the registry writes to the
\* channel exactly once, after its loop, and the batch written has numEvents
\* events, event i carrying the i-th path, the i-th flag word and the i-th
\* identifier of the native arrays, in native order.
C6_OneWholeBatch ==
    \A h \in Handles :
        /\ cb[h].pc = "send" =>
             /\ Cardinality(WritesOf(h)) = 1
             /\ \A k \in WritesOf(h) :
                  /\ Len(sendq[k].batch) = cb[h].numEvents
                  /\ sendq[k].batch = Expected(cb[h])
        /\ cb[h].pc # "send" => WritesOf(h) = {}

C6_Witness ==
    \E h \in Handles :
        /\ cb[h].pc = "send"
        /\ cb[h].paths = <<1, 0>>
        /\ sendq = << [h |-> h, batch |-> << Event(<<47, 97>>, 65792, U64(1)),
                                             Event(<<>>, 4096, U64(3)) >>] >>

\* C7: an invocation whose token is not in the registry returns at once: it
\* logs one line, writes nothing to the channel and leaves the EventStream,
\* its EventID included, as it was.
C7_RegistryMissDiscards ==
    [][ \A h \in Handles :
          (cb[h].pc = "get" /\ cb[h].info \notin registry /\ cb'[h] # cb[h]) =>
              /\ cb'[h] = IdleCb
              /\ logged' = logged + 1
              /\ sendq' = sendq
              /\ es' = es ]_vars

C7_Witness ==
    /\ logged = 1
    /\ sendq = <<>>
    /\ \A h \in Handles : cb[h].pc = "idle"
    /\ ncb = 1

C9_EventIDIsLastOfBatch ==
    [][ \A h \in Handles :
          (cb[h].pc = "loop" /\ cb[h].i = cb[h].numEvents - 1 /\ cb'[h] # cb[h]) =>
              /\ cb'[h].i = cb[h].numEvents
              /\ es'.EventID = cb[h].ids[cb[h].numEvents] ]_vars

C9_Witness ==
    \E h \in Handles :
        /\ cb[h].pc = "send"
        /\ cb[h].ids = << U64(3), U64(1) >>
        /\ es.EventID = U64(1)
        /\ processed = << U64(1) >>

AllBitsSet == <<65535, 65535, 65535, 65535>>

IsCreate(c) == c.fn \in {"FSEventStreamCreate", "FSEventStreamCreateRelativeToDevice"}

\* C10: every Start that reaches native creation hands it, as since, the
\* value 0xFFFFFFFFFFFFFFFF when Resume is not set and the stored EventID
\* when Resume is set; with Resume set and a batch processed before, that
\* is the identifier callback processed last.
C10_SinceIdentifier ==
    [][ starts' # starts =>
          LET c == last'.calls[1]
          IN  /\ last'.op = "Start" /\ IsCreate(c)
              /\ ~es.Resume => c.since = AllBitsSet
              /\ es.Resume => c.since = es.EventID
              /\ (es.Resume /\ processed # <<>>) => c.since = processed[1]
              /\ c.ref # NULL => nat'.since[c.ref] = c.since ]_vars

C10_Witness ==
    /\ last.op = "Start"
    /\ last.calls # <<>>
    /\ starts = 2
    /\ es.Resume
    /\ processed = << U64(3) >>
    /\ last.calls[1].ref = 2
    /\ last.calls[1].since = U64(3)
    /\ nat.since[2] = U64(3)
    /\ nat.st[1] = "released"

\* Invocation s has passed the registry lookup and has not returned.
Passed(s) == \E h \in Handles : cb[h].seq = s /\ cb[h].pc \in {"loop", "send"}

Received(s) == \E k \in 1..Len(recv) : recv[k].seq = s

\* C11 as stated, its order: the batches are received in the order their
\* callbacks were invoked.
C11_InvocationOrder ==
    \A j, k \in 1..Len(recv) : j < k => recv[j].seq < recv[k].seq

\* C11: with a consumer that keeps receiving, every batch whose callback
\* passed the registry lookup is eventually received; no batch is received
\* twice; a blocked write ends only by the consumer receiving it, the oldest
\* blocked write first; and the batches of one native stream are received in
\* the order their callbacks were invoked.
C11_NoLossInWriteOrder ==
    /\ \A s \in 1..MaxRaceCallbacks : Passed(s) ~> Received(s)
    /\ [](\A j, k \in 1..Len(recv) :
            j < k => /\ recv[j].seq # recv[k].seq
                     /\ recv[j].h = recv[k].h => recv[j].seq < recv[k].seq)
    /\ [][ \A h \in Handles :
             (cb[h].pc = "send" /\ cb'[h].pc # "send") =>
                 /\ Head(sendq).h = h
                 /\ sendq' = Tail(sendq)
                 /\ recv' = Append(recv, [seq |-> cb[h].seq, h |-> h]) ]_vars

C11_Witness ==
    /\ Len(recv) = 2
    /\ recv[1].h = recv[2].h
    /\ recv[1].seq = 1 /\ recv[2].seq = 2

\* C12: the runtime invokes a callback for a stream only while that stream is
\* the one the EventStream holds started, and a callback passes the registry
\* lookup only while its stream is still held: after a completed Stop no
\* callback is invoked for the stopped stream and none passes the lookup, so
\* no batch is written for a change after the Stop until the next Start.
C12_NoDeliveryAfterStop ==
    [][ \A h \in Handles :
          /\ (cb[h].pc = "idle" /\ cb'[h].pc = "get") => es.stream = h
          /\ (cb[h].pc = "get" /\ cb'[h].pc = "loop") =>
                 /\ es.stream = h
                 /\ Live(nat, h)
          /\ (es.stream = h /\ es'.stream = 0 /\ cb[h].pc = "get") =>
                 (cb'[h].pc = "get" /\ ~registryGet(registry', cb[h].info)) ]_vars

C12_Witness ==
    /\ last.op = "Stop"
    /\ Len(last.calls) = 4
    /\ es.stream = 0
    /\ \E h \in Handles : cb[h].pc = "get" /\ nat.st[h] = "released"

\* C13: a Stop leaves every callback where it is and the blocked writes as
\* they are; a callback blocked in its channel write, or on its way to it
\* after the registry lookup, returns only by the step in which the consumer
\* receives its batch, the oldest blocked write.
C13_StopLeavesWriteBlocked ==
    [][ /\ last'.op = "Stop" /\ last' # last => (cb' = cb /\ sendq' = sendq)
        /\ (es.stream # 0 /\ es'.stream = 0) => (cb' = cb /\ sendq' = sendq)
        /\ \A h \in Handles :
             (cb[h].pc \in {"loop", "send"} /\ cb'[h].pc = "idle") =>
                 /\ cb[h].pc = "send"
                 /\ sendq # <<>>
                 /\ Head(sendq) = [h |-> h, batch |-> cb[h].events]
                 /\ sendq' = Tail(sendq)
                 /\ Len(recv') = Len(recv) + 1 ]_vars

\* A Stop has completed and the write begun before it is still blocked.
C13_Witness ==
    /\ last.op = "Stop"
    /\ Len(last.calls) = 4
    /\ es.stream = 0
    /\ \E h \in Handles :
         /\ cb[h].pc = "send"
         /\ nat.st[h] = "released"
         /\ sendq = << [h |-> h, batch |-> cb[h].events] >>
    /\ recv = <<>>

NeedsStream(fn) ==
    fn \in {"FSEventStreamSetDispatchQueue", "FSEventStreamStart", "FSEventStreamStop",
            "FSEventStreamFlushSync", "FSEventStreamFlushAsync",
            "FSEventStreamInvalidate", "FSEventStreamRelease"}

\* C14: a Start whose native creation returned the null handle returns an
\* error, releases the queue if it created one, and makes no call that takes
\* a stream (bind to queue, start, invalidate, release) with the null handle.
C14_NullHandleNotUsed ==
    (last.op = "Start" /\ last.calls # <<>> /\ last.calls[1].ref = NULL) =>
        /\ last.err
        /\ \A k \in 1..Len(last.calls) :
             /\ NeedsStream(last.calls[k].fn) => last.calls[k].ref # NULL
             /\ last.calls[k].fn = "dispatch_queue_create" =>
                    nat.qst[last.calls[k].q] = "released"

\* C18: a batch that holds an event with a null path pointer is written as
\* one unit of numEvents events; the event with the null pointer has the
\* empty path and its own flag word and identifier, and every other event
\* has the text at its pointer and its own flag word and identifier, each in
\* its position.
C18_NullPathDelivered ==
    \A k \in 1..Len(sendq) :
        LET h == sendq[k].h
            c == cb[h]
            b == sendq[k].batch
        IN  (\E n \in 1..c.numEvents : c.paths[n] = NULL) =>
                /\ Len(b) = c.numEvents
                /\ \A n \in 1..c.numEvents :
                     /\ b[n].Flags = c.flags[n]
                     /\ b[n].ID = c.ids[n]
                     /\ c.paths[n] = NULL => b[n].Path = <<>>
                     /\ c.paths[n] # NULL => b[n].Path = PathText(c.paths[n])

\* A batch of a null-path event and an event with a path is blocked.
C18_Witness ==
    \E k \in 1..Len(sendq) :
        LET c == cb[sendq[k].h]
        IN  /\ c.numEvents = 2
            /\ c.paths = <<NULL, 1>>
            /\ sendq[k].batch = << Event(<<>>, ItemModified, U64(3)),
                                   Event(<<47, 97>>, ItemCreated + ItemIsFile, U64(1)) >>

\* C20: a callback invoked with numEvents = 0 for a registered stream changes
\* nothing of the EventStream in any of its steps, EventID included, begins
\* one write of the empty batch to the channel, and returns only when the
\* consumer has received that write.
C20_EmptyBatchWritten ==
    [][ \A h \in Handles :
          (cb[h].numEvents = 0 /\ cb'[h] # cb[h]) =>
              /\ cb[h].pc = "get" /\ registryGet(registry, cb[h].info) =>
                     (cb'[h].pc = "loop" /\ es' = es /\ sendq' = sendq)
              /\ cb[h].pc = "loop" =>
                     /\ cb'[h].pc = "send"
                     /\ es' = es
                     /\ sendq' = Append(sendq, [h |-> h, batch |-> <<>>])
              /\ cb[h].pc = "send" =>
                     /\ cb'[h].pc = "idle"
                     /\ es' = es
                     /\ Head(sendq) = [h |-> h, batch |-> <<>>]
                     /\ sendq' = Tail(sendq) ]_vars

\* An empty batch was written and received; EventID is as constructed.
C20_Witness ==
    /\ Len(recv) = 1
    /\ ncb = 1
    /\ processed = <<>>
    /\ es.EventID = U64(0)
    /\ \A h \in Handles : cb[h].pc = "idle"

\* Callback h is blocked writing a non-empty batch.
BlockedNonEmpty(h) == cb[h].pc = "send" /\ cb[h].numEvents > 0

LastID(h) == cb[h].ids[cb[h].numEvents]

\* C19 as stated, for the blocked write: whenever a callback is blocked
\* writing a non-empty batch, EventID equals the last identifier of that
\* batch.
C19_CheckpointIsBlockedBatch ==
    \A h \in Handles : BlockedNonEmpty(h) => es.EventID = LastID(h)

\* C19: a callback blocked writing a non-empty batch has finished its loop,
\* so some callback has assigned EventID; while the blocked callback is the
\* one that assigned EventID last, EventID equals the last identifier of its
\* batch, it still does in the state after the consumer receives the batch,
\* and a Start with Resume set that creates a stream meanwhile passes that
\* identifier as the identifier to resume after.
C19_CheckpointWrittenBeforeWrite ==
    /\ [](\A h \in Handles :
            BlockedNonEmpty(h) =>
                /\ cb[h].i = cb[h].l
                /\ assigner # 0
                /\ assigner = cb[h].seq => es.EventID = LastID(h))
    /\ [][ \A h \in Handles :
             (BlockedNonEmpty(h) /\ assigner = cb[h].seq) =>
                 /\ cb'[h].pc = "idle" => es'.EventID = LastID(h)
                 /\ (es.Resume /\ last' # last /\ last'.op = "Start"
                       /\ last'.calls # <<>>) =>
                        last'.calls[1].since = LastID(h) ]_vars

\* A stream was stopped and started again with Resume while the batch of the
\* stopped stream is still unreceived.
C19_Witness ==
    /\ last.op = "Start"
    /\ ~last.err
    /\ es.Resume
    /\ \E h \in Handles :
         /\ BlockedNonEmpty(h)
         /\ nat.st[h] = "released"
         /\ assigner = cb[h].seq
         /\ last.calls[1].since = LastID(h)
         /\ es.EventID = U64(1)

\* The absolute forms of the paths that resolve, in input order.
RECURSIVE Resolved(_, _)
Resolved(paths, wdOk) ==
    IF paths = <<>> THEN <<>>
    ELSE LET a == filepathAbs(Head(paths), wdOk)
         IN  (IF a.err THEN <<>> ELSE <<a.p>>) \o Resolved(Tail(paths), wdOk)

\* The paths that fail to resolve, in input order.
RECURSIVE Failed(_, _)
Failed(paths, wdOk) ==
    IF paths = <<>> THEN <<>>
    ELSE (IF filepathAbs(Head(paths), wdOk).err THEN <<Head(paths)>> ELSE <<>>)
         \o Failed(Tail(paths), wdOk)

\* C15: the array createPaths returns holds exactly the absolute forms of the
\* paths that resolved, one entry each in input order and none for a path
\* that failed; the error is non-nil and lists the failures when some path
\* failed and is nil when none did.
C15_OnlyResolvedPaths ==
    mar.op = "createPaths" =>
        /\ ArrayTexts(mar.heap, mar.ret) = Resolved(mar.paths, mar.wdOk)
        /\ mar.err = Failed(mar.paths, mar.wdOk)

IsAbs(p) == p # <<>> /\ p[1] = 47

\* The paths of the call are a non-empty list of absolute paths.
AbsolutePaths == mar.paths # <<>> /\ \A k \in 1..Len(mar.paths) : IsAbs(mar.paths[k])

\* C16 as stated: for a non-empty list of absolute paths createPaths returns
\* no error and an array as long as the list, and the stream set up from the
\* list reports the same paths in the same order.
C16_SamePathsReported ==
    AbsolutePaths =>
        /\ mar.op = "createPaths" =>
               (mar.err = <<>> /\ Len(mar.heap[mar.ret].val) = Len(mar.paths))
        /\ mar.op = "getStreamRefPaths" => mar.out = mar.paths

\* C16: for a non-empty list of absolute paths createPaths returns no error
\* and an array as long as the list, holding the cleaned form of each path in
\* input order; the stream set up from the list reports these cleaned forms
\* in input order, which are the paths themselves when every path is already
\* clean.
C16_CleanedPathsReported ==
    AbsolutePaths =>
        LET cleaned == [k \in 1..Len(mar.paths) |-> filepathClean(mar.paths[k])]
        IN  /\ mar.op = "createPaths" =>
                   /\ mar.err = <<>>
                   /\ Len(mar.heap[mar.ret].val) = Len(mar.paths)
                   /\ ArrayTexts(mar.heap, mar.ret) = cleaned
            /\ mar.op = "getStreamRefPaths" =>
                   /\ mar.out = cleaned
                   /\ (\A k \in 1..Len(mar.paths) : mar.paths[k] = cleaned[k]) =>
                          mar.out = mar.paths

\* The stream set up from "/a", "/aa" reported its paths.
C16_Witness ==
    /\ mar.op = "getStreamRefPaths"
    /\ mar.paths = << <<47, 97>>, <<47, 97, 97>> >>
    /\ mar.out = mar.paths

\* The object is handed on to the caller of the call made: the array
\* createPaths returns with the strings in it, the URL goStringToCFURL returns.
HandedToCaller(id) ==
    \/ id = mar.ret
    \/ /\ mar.op = "createPaths"
       /\ \E k \in 1..Len(mar.heap[mar.ret].val) : mar.heap[mar.ret].val[k] = id

\* C17: when a marshaling or setup call has returned, every object it obtained
\* an owned reference to and did not hand to its caller (the path array and
\* the path strings of setupStream, the intermediate string of
\* goStringToCFURL, the copied description and paths array, the UUID and the
\* UUID string of GetDeviceUUID) has been released exactly once.
C17_ReleasedExactlyOnce ==
    mar.op # "none" =>
        \A id \in 1..Len(mar.heap) :
            (mar.heap[id].own /\ ~HandedToCaller(id)) => mar.heap[id].rel = 1

====
